---- MODULE Spec2Model ----
(***************************************************************************)
(* A model of the ProdCast worker: the Django models of core/models.py     *)
(* that carry behaviour (ServersClass, ScenarioComponentLink,              *)
(* ObjectTypeProperty, MainClass) and the Celery task run_scenario of      *)
(* core/tasks.py.  Each table is a variable, each save / method / task     *)
(* statement an action.                                                    *)
(***************************************************************************)
EXTENDS Integers, Sequences, FiniteSets

VARIABLES
    servers,      \* apiapp_servers: server_id -> row (DOMAIN = the stored rows)
    serverCalls,  \* history: server_id -> last of activate / deactivate called on it
    links,        \* apiapp_scenario_component_link: set of rows
    mainRows,     \* apiapp_mainclass: set of rows
    unitDefs,     \* apiapp_unit_definition: unit_definition_id -> row
    props,        \* apiapp_object_type_property: id -> row
    scenarios,    \* apiapp_scenarios: scenario_id -> row
    logs,         \* apiapp_scenariolog: rows in insertion (id) order
    task,         \* the invocations of run_scenario: task -> its frame
    published,    \* the update_state calls made, in order
    clock,        \* timezone.now()
    switches,     \* history: changes of the running task so far
    writes,       \* history: row updates made by another writer so far
    running,      \* history: the task that took the last step
    call,         \* history: the last model operation called and its inputs
    raised        \* the exception the last model operation ended with

vars == <<servers, serverCalls, links, mainRows, unitDefs, props, scenarios,
          logs, task, published, clock, switches, writes, running, call,
          raised>>

storeVars == <<servers, serverCalls, links, mainRows, unitDefs, props>>
runVars == <<scenarios, logs, task, published, clock, switches, writes, running>>

\* ---------------------------------------------------------------- values

NULL == 0                      \* None / SQL NULL of a nullable column
NoException == "none"
ValidationError == "ValidationError"
NoCall == [op |-> "none"]

\* ---------------------------------------------------------------- bounds

NumServers == 4                \* server rows of the listing model
MaxLinks == 4                  \* link rows ever inserted
MaxMainRows == 2               \* MainClass rows ever inserted
MaxSwitches == 3               \* task switches explored in the two-task race
MaxWrites == 1                 \* row updates by another writer during a run

ServerIds == 1..NumServers
ScenarioIds == {1, 2}

\* ================================================================ servers

\* The row a ServersClass() gets from its field defaults.
ServersClass_new(name) == [server_name |-> name, is_active |-> TRUE]

\* A faulty variant: the manager returns the unfiltered queryset.
get_queryset_unfiltered == DOMAIN servers

\* ActiveManager.get_queryset: the rows with is_active = True.
ActiveManager_get_queryset == {s \in DOMAIN servers : servers[s].is_active}

\* models.Manager(): every row.
all_objects == DOMAIN servers

ServerRowWith(s, row) ==
    [x \in (DOMAIN servers) \cup {s} |-> IF x = s THEN row ELSE servers[x]]

CreateServer(s) ==
    /\ s \notin DOMAIN servers
    /\ servers' = ServerRowWith(s, ServersClass_new("Server 1"))
    /\ serverCalls' = [serverCalls EXCEPT ![s] = "created"]
    /\ call' = [op |-> "server_create", pk |-> s]
    /\ raised' = NoException
    /\ UNCHANGED <<links, mainRows, unitDefs, props>>
    /\ UNCHANGED runVars

\* ServersClass.deactivate: is_active = False; save().
deactivate(s) ==
    /\ s \in DOMAIN servers
    /\ servers' = [servers EXCEPT ![s].is_active = FALSE]
    /\ serverCalls' = [serverCalls EXCEPT ![s] = "deactivate"]
    /\ call' = [op |-> "deactivate", pk |-> s]
    /\ raised' = NoException
    /\ UNCHANGED <<links, mainRows, unitDefs, props>>
    /\ UNCHANGED runVars

\* ServersClass.activate: is_active = True; save().
activate(s) ==
    /\ s \in DOMAIN servers
    /\ servers' = [servers EXCEPT ![s].is_active = TRUE]
    /\ serverCalls' = [serverCalls EXCEPT ![s] = "activate"]
    /\ call' = [op |-> "activate", pk |-> s]
    /\ raised' = NoException
    /\ UNCHANGED <<links, mainRows, unitDefs, props>>
    /\ UNCHANGED runVars

\* ================================================== scenario <-> component

ComponentIds == {1, 2, 3}
DataSourceIds == {1, 2}

\* ScenarioComponent.data_source of the stored components.
ComponentDataSource(c) == IF c = 3 THEN 2 ELSE 1

\* QuerySet.exclude(pk=pk): with pk None nothing is excluded.
exclude_pk(rows, pk) == {l \in rows : pk = NULL \/ l.pk # pk}

\* A faulty variant: the record being saved is not excluded from the lookup.
clean_without_exclude(inst) ==
    \E l \in links :
        /\ l.scenario = inst.scenario
        /\ ComponentDataSource(l.component) = ComponentDataSource(inst.component)

\* ScenarioComponentLink.clean: TRUE when it raises ValidationError.
ScenarioComponentLink_clean(inst) ==
    LET same == {l \in links :
                    /\ l.scenario = inst.scenario
                    /\ ComponentDataSource(l.component)
                           = ComponentDataSource(inst.component)}
    IN  exclude_pk(same, inst.pk) # {}

\* Model.validate_unique for unique_together (scenario, component).
ScenarioComponentLink_validate_unique(inst) ==
    exclude_pk({l \in links : /\ l.scenario = inst.scenario
                              /\ l.component = inst.component}, inst.pk) # {}

\* Model.full_clean: clean() and validate_unique(); TRUE when it raises.
ScenarioComponentLink_full_clean(inst) ==
    \/ ScenarioComponentLink_clean(inst)
    \/ ScenarioComponentLink_validate_unique(inst)

\* The next AutoField value of the link table.
NextLinkPk == IF links = {} THEN 1
              ELSE 1 + (CHOOSE m \in {l.pk : l \in links} :
                            \A l \in links : l.pk <= m)

\* The instances a caller can hand to save(): a new one, or a stored one
\* with its scenario / component reassigned.
NewLinkInstances ==
    {[pk |-> NULL, scenario |-> s, component |-> c] :
        s \in ScenarioIds, c \in ComponentIds}

StoredLinkInstances ==
    {[pk |-> l.pk, scenario |-> s, component |-> c] :
        l \in links, s \in ScenarioIds, c \in ComponentIds}

\* ScenarioComponentLink.save: full_clean(), then Model.save().
ScenarioComponentLink_save(inst) ==
    /\ inst.pk = NULL => NextLinkPk <= MaxLinks
    /\ call' = [op |-> "link_save", inst |-> inst, pre |-> links]
    /\ IF ScenarioComponentLink_full_clean(inst)
       THEN /\ raised' = ValidationError
            /\ links' = links
       ELSE /\ raised' = NoException
            /\ links' = IF inst.pk = NULL
                        THEN links \cup {[inst EXCEPT !.pk = NextLinkPk]}
                        ELSE {l \in links : l.pk # inst.pk} \cup {inst}
    /\ UNCHANGED <<servers, serverCalls, mainRows, unitDefs, props>>
    /\ UNCHANGED runVars

\* ================================================================ MainClass

ObjectTypeIds == {1, 2}
ObjectInstanceIds == {1, 2, 3}

\* ObjectInstance.object_type of the stored instances.
InstanceObjectType(i) == IF i = 2 THEN 2 ELSE 1

\* A faulty variant: the receiver compares nothing.
validate_nothing(instance) == FALSE

\* validate_object_instance (pre_save receiver): TRUE when it raises.
validate_object_instance(instance) ==
    InstanceObjectType(instance.object_instance) # instance.object_type

NextMainPk == IF mainRows = {} THEN 1
              ELSE 1 + (CHOOSE m \in {r.pk : r \in mainRows} :
                            \A r \in mainRows : r.pk <= m)

NewMainInstances ==
    {[pk |-> NULL, object_type |-> t, object_instance |-> i, value |-> v] :
        t \in ObjectTypeIds, i \in ObjectInstanceIds, v \in {1, 2}}

StoredMainInstances ==
    {[pk |-> r.pk, object_type |-> t, object_instance |-> i, value |-> v] :
        r \in mainRows, t \in ObjectTypeIds, i \in ObjectInstanceIds, v \in {1, 2}}

\* MainClass.save: pre_save is sent before the row is written.
MainClass_save(instance) ==
    /\ instance.pk = NULL => NextMainPk <= MaxMainRows
    /\ call' = [op |-> "main_save", inst |-> instance, pre |-> mainRows]
    /\ IF validate_object_instance(instance)
       THEN /\ raised' = ValidationError
            /\ mainRows' = mainRows
       ELSE /\ raised' = NoException
            /\ mainRows' = IF instance.pk = NULL
                           THEN mainRows \cup {[instance EXCEPT !.pk = NextMainPk]}
                           ELSE {r \in mainRows : r.pk # instance.pk} \cup {instance}
    /\ UNCHANGED <<servers, serverCalls, links, unitDefs, props>>
    /\ UNCHANGED runVars

\* ======================================================= ObjectTypeProperty

UnitTypeIds == {1, 2}
UnitCategoryIds == {1, 2}
UnitDefinitionIds == {1, 2, 3}
PropertyIds == {1, 2}

\* UnitCategory.unit_type of the stored categories.
CategoryUnitType(c) == c

\* The stored definitions: unit_definition_name is given by its rank in the
\* ordering of Meta.ordering; definitions 1 and 2 are of type 1 and definition
\* 1 sorts after definition 2.
UnitDefinitionRows(flags) ==
    [d \in UnitDefinitionIds |->
        [unit_type |-> IF d = 3 THEN 2 ELSE 1,
         unit_definition_name |-> IF d = 1 THEN 2 ELSE 1,
         is_base |-> flags[d]]]

\* UnitDefinition.objects.filter(unit_type=t, is_base=True)
BaseDefinitions(t) ==
    {d \in UnitDefinitionIds : unitDefs[d].unit_type = t /\ unitDefs[d].is_base}

\* A faulty variant: first() taken with the filter on is_base dropped.
first_of_type(t) ==
    LET ds == {d \in UnitDefinitionIds : unitDefs[d].unit_type = t}
    IN  IF ds = {} THEN NULL
        ELSE CHOOSE d \in ds : \A e \in ds :
                 unitDefs[d].unit_definition_name <= unitDefs[e].unit_definition_name

\* .first() of that queryset under Meta.ordering = ["unit_definition_name"];
\* None when the queryset is empty.
first_base(t) ==
    LET ds == BaseDefinitions(t)
    IN  IF ds = {} THEN NULL
        ELSE CHOOSE d \in ds : \A e \in ds :
                 unitDefs[d].unit_definition_name <= unitDefs[e].unit_definition_name

\* ObjectTypeProperty.save with unit_category as the caller assigned it.
ObjectTypeProperty_save(p, unit_category) ==
    /\ props' = [props EXCEPT ![p] =
                    [unit_category |-> unit_category,
                     unit |-> IF unit_category # NULL
                              THEN first_base(CategoryUnitType(unit_category))
                              ELSE NULL]]
    /\ call' = [op |-> "prop_save", pk |-> p, pre |-> props[p],
                fresh |-> call.op = "prop_save" /\ call.pk = p]
    /\ raised' = NoException
    /\ UNCHANGED <<servers, serverCalls, links, mainRows, unitDefs>>
    /\ UNCHANGED runVars

\* UnitDefinition.save with is_base changed: the reference data moves.
UnitDefinition_save(d, is_base) ==
    /\ unitDefs[d].is_base # is_base
    /\ unitDefs' = [unitDefs EXCEPT ![d].is_base = is_base]
    /\ call' = [op |-> "unitdef_save", pk |-> d]
    /\ raised' = NoException
    /\ UNCHANGED <<servers, serverCalls, links, mainRows, props>>
    /\ UNCHANGED runVars

\* =============================================================== run_scenario

\* range(0, 101, 10)
RangeStart == 0
RangeStop == 101
RangeStep == 10

Hostnames == {"celery@worker-1"}
DateLabels == {<<"2024-01-01", "2024-01-31">>, <<"2024-02-01", "2024-02-29">>}

\* A ScenarioClass row as its field defaults leave it.
ScenarioClass_new(id, name, server) ==
    [scenario_id |-> id, scenario_name |-> name, description |-> <<>>,
     status |-> "PENDING", start_date |-> NULL, end_date |-> NULL,
     task_id |-> "", server |-> server, is_approved |-> FALSE]

NoScenario == ScenarioClass_new(NULL, "", NULL)
NoServer == [server_id |-> NULL, server_name |-> ""]
NoResult == [status |-> "", scenario_id |-> NULL]

\* The frame of one invocation run_scenario(scenario_id, start_date, end_date).
Frame(scenario_id, dates, hostname) ==
    [pc |-> "load", scenario_id |-> scenario_id, start_date |-> dates[1],
     end_date |-> dates[2], hostname |-> hostname, scenario |-> NoScenario,
     server |-> NoServer, i |-> RangeStart, error |-> NoException,
     failed_at |-> "", result |-> NoResult]

\* The scheduling of the worker pool: any task may take the next step; the
\* history counts the changes of the running task.
Scheduled(t) ==
    /\ running' = t
    /\ IF running \in {NULL, t}
       THEN switches' = switches
       ELSE /\ switches < MaxSwitches
            /\ switches' = switches + 1

\* A faulty variant: save() writes only the fields a start of the task assigns.
save_update_fields(inst) ==
    [scenarios EXCEPT ![inst.scenario_id].status = inst.status,
                      ![inst.scenario_id].start_date = inst.start_date]

\* Model.save() of a ScenarioClass instance: every column of the row is
\* written from the instance; related objects are not saved.
ScenarioClass_save(inst) == [scenarios EXCEPT ![inst.scenario_id] = inst]

\* ScenarioLog.objects.create(scenario=, timestamp=, message=, progress=)
ScenarioLog_create(scenario, timestamp, message, progress) ==
    Append(logs, [scenario |-> scenario.scenario_id, timestamp |-> timestamp,
                  message |-> message, progress |-> progress])

\* f"Progress: {i}%"
ProgressMessage(i) == <<"Progress: ", i, "%">>

\* A faulty variant: the description names the start date only.
description_without_end(start_date, end_date) ==
    <<"Calculated from ", start_date>>

\* f"Calculated from {start_date} to {end_date}"
DescriptionText(start_date, end_date) ==
    <<"Calculated from ", start_date, " to ", end_date>>

\* line 11: scenario = ScenarioClass.objects.get(scenario_id=scenario_id)
Load(t) ==
    /\ task[t].pc = "load"
    /\ Scheduled(t)
    /\ IF task[t].scenario_id \in DOMAIN scenarios
       THEN task' = [task EXCEPT ![t].scenario = scenarios[task[t].scenario_id],
                                 ![t].pc = "start"]
       ELSE task' = [task EXCEPT ![t].error = "DoesNotExist",
                                 ![t].failed_at = "load",
                                 ![t].pc = "failed"]
    /\ UNCHANGED <<scenarios, logs, published, clock, writes>>
    /\ UNCHANGED <<storeVars, call, raised>>

\* lines 12-14: status, scenario.server.server_name, start_date are assigned on
\* the instance; scenario.server is None when the column is null.
Start(t) ==
    /\ task[t].pc = "start"
    /\ Scheduled(t)
    /\ LET started == [task[t].scenario EXCEPT !.status = "STARTED"]
       IN  IF started.server = NULL
           THEN /\ task' = [task EXCEPT ![t].scenario = started,
                                        ![t].error = "AttributeError",
                                        ![t].failed_at = "start",
                                        ![t].pc = "failed"]
                /\ clock' = clock
           ELSE /\ task' = [task EXCEPT
                               ![t].scenario = [started EXCEPT !.start_date = clock],
                               ![t].server = [server_id |-> started.server,
                                              server_name |-> task[t].hostname],
                               ![t].pc = "save1"]
                /\ clock' = clock + 1
    /\ UNCHANGED <<scenarios, logs, published, writes>>
    /\ UNCHANGED <<storeVars, call, raised>>

\* line 15: scenario.save()
Save1(t) ==
    /\ task[t].pc = "save1"
    /\ Scheduled(t)
    /\ scenarios' = ScenarioClass_save(task[t].scenario)
    /\ task' = [task EXCEPT ![t].pc = "log_started"]
    /\ UNCHANGED <<logs, published, clock, writes>>
    /\ UNCHANGED <<storeVars, call, raised>>

\* lines 17-21 and the entry of the loop of line 23
LogStarted(t) ==
    /\ task[t].pc = "log_started"
    /\ Scheduled(t)
    /\ logs' = ScenarioLog_create(task[t].scenario, clock, <<"Task started">>, 0)
    /\ clock' = clock + 1
    /\ task' = [task EXCEPT ![t].i = RangeStart,
                            ![t].pc = IF RangeStart < RangeStop
                                      THEN "log_progress" ELSE "finish"]
    /\ UNCHANGED <<scenarios, published, writes>>
    /\ UNCHANGED <<storeVars, call, raised>>

\* lines 25-31: time.sleep(5), then the progress row
LogProgress(t) ==
    /\ task[t].pc = "log_progress"
    /\ Scheduled(t)
    /\ logs' = ScenarioLog_create(task[t].scenario, clock,
                                  ProgressMessage(task[t].i), task[t].i)
    /\ clock' = clock + 1
    /\ task' = [task EXCEPT ![t].pc = "update_state"]
    /\ UNCHANGED <<scenarios, published, writes>>
    /\ UNCHANGED <<storeVars, call, raised>>

\* line 32: self.update_state(state="STARTED", meta={"progress": i}), and the
\* next value of the range
UpdateState(t) ==
    /\ task[t].pc = "update_state"
    /\ Scheduled(t)
    /\ published' = Append(published, [task |-> t, state |-> "STARTED",
                                       progress |-> task[t].i])
    /\ task' = [task EXCEPT ![t].i = IF task[t].i + RangeStep < RangeStop
                                     THEN task[t].i + RangeStep ELSE task[t].i,
                            ![t].pc = IF task[t].i + RangeStep < RangeStop
                                      THEN "log_progress" ELSE "finish"]
    /\ UNCHANGED <<scenarios, logs, clock, writes>>
    /\ UNCHANGED <<storeVars, call, raised>>

\* A faulty variant: the final status is never assigned.
finish_keeps_status(t) ==
    /\ task[t].pc = "finish"
    /\ Scheduled(t)
    /\ task' = [task EXCEPT
                   ![t].scenario = [task[t].scenario EXCEPT
                        !.end_date = clock,
                        !.description = DescriptionText(task[t].start_date,
                                                        task[t].end_date)],
                   ![t].pc = "save2"]
    /\ clock' = clock + 1
    /\ UNCHANGED <<scenarios, logs, published, writes>>
    /\ UNCHANGED <<storeVars, call, raised>>

\* lines 34-36
Finish(t) ==
    /\ task[t].pc = "finish"
    /\ Scheduled(t)
    /\ task' = [task EXCEPT
                   ![t].scenario = [task[t].scenario EXCEPT
                        !.status = "SUCCESS",
                        !.end_date = clock,
                        !.description = DescriptionText(task[t].start_date,
                                                        task[t].end_date)],
                   ![t].pc = "save2"]
    /\ clock' = clock + 1
    /\ UNCHANGED <<scenarios, logs, published, writes>>
    /\ UNCHANGED <<storeVars, call, raised>>

\* line 37: scenario.save()
Save2(t) ==
    /\ task[t].pc = "save2"
    /\ Scheduled(t)
    /\ scenarios' = ScenarioClass_save(task[t].scenario)
    /\ task' = [task EXCEPT ![t].pc = "log_finished"]
    /\ UNCHANGED <<logs, published, clock, writes>>
    /\ UNCHANGED <<storeVars, call, raised>>

\* lines 39-44
LogFinished(t) ==
    /\ task[t].pc = "log_finished"
    /\ Scheduled(t)
    /\ logs' = ScenarioLog_create(task[t].scenario, clock, <<"Task finished">>, 100)
    /\ clock' = clock + 1
    /\ task' = [task EXCEPT ![t].pc = "return"]
    /\ UNCHANGED <<scenarios, published, writes>>
    /\ UNCHANGED <<storeVars, call, raised>>

\* line 46
Return(t) ==
    /\ task[t].pc = "return"
    /\ Scheduled(t)
    /\ task' = [task EXCEPT ![t].result = [status |-> "SUCCESS",
                                           scenario_id |-> task[t].scenario_id],
                            ![t].pc = "done"]
    /\ UNCHANGED <<scenarios, logs, published, clock, writes>>
    /\ UNCHANGED <<storeVars, call, raised>>

\* The statements that reach the database or the result backend (line 13
\* loads scenario.server on first access), each of which can raise.
RaisingStatements ==
    {"load", "start", "save1", "log_started", "log_progress", "update_state", "save2",
     "log_finished"}

\* A faulty variant: the task catches the exception, logs it and returns.
fault_logged(t) ==
    /\ task[t].pc \in RaisingStatements
    /\ Scheduled(t)
    /\ task' = [task EXCEPT ![t].failed_at = task[t].pc, ![t].pc = "failed"]
    /\ logs' = Append(logs, [scenario |-> task[t].scenario_id, timestamp |-> clock,
                             message |-> <<"Task failed">>, progress |-> task[t].i])
    /\ UNCHANGED <<scenarios, published, clock, writes>>
    /\ UNCHANGED <<storeVars, call, raised>>

\* An exception out of one of those statements: nothing catches it, the
\* statement has no effect and the task ends.
Fault(t) ==
    /\ task[t].pc \in RaisingStatements
    /\ Scheduled(t)
    /\ task' = [task EXCEPT ![t].error = "Exception",
                            ![t].failed_at = task[t].pc,
                            ![t].pc = "failed"]
    /\ UNCHANGED <<scenarios, logs, published, clock, writes>>
    /\ UNCHANGED <<storeVars, call, raised>>

\* Another writer of apiapp_scenarios updates one row: the columns the task
\* never assigns.
OtherWriter(s, is_approved, task_id, server) ==
    /\ writes < MaxWrites
    /\ writes' = writes + 1
    /\ \E t \in DOMAIN task : task[t].pc \notin {"done", "failed"}
    /\ scenarios[s].is_approved # is_approved
         \/ scenarios[s].task_id # task_id
         \/ scenarios[s].server # server
    /\ scenarios' = [scenarios EXCEPT ![s].is_approved = is_approved,
                                      ![s].task_id = task_id,
                                      ![s].server = server]
    /\ UNCHANGED <<logs, task, published, clock, switches, running>>
    /\ UNCHANGED <<storeVars, call, raised>>

RunStep(t) ==
    \/ Load(t) \/ Start(t) \/ Save1(t) \/ LogStarted(t) \/ LogProgress(t)
    \/ UpdateState(t) \/ Finish(t) \/ Save2(t) \/ LogFinished(t) \/ Return(t)

\* ============================================================ specifications

\* The tables no operation of a specification touches.
IdleStore ==
    /\ links = {}
    /\ mainRows = {}
    /\ unitDefs = UnitDefinitionRows([d \in UnitDefinitionIds |-> FALSE])
    /\ props = [p \in PropertyIds |-> [unit_category |-> NULL, unit |-> NULL]]
    /\ call = NoCall
    /\ raised = NoException

StoredServers ==
    /\ servers = [s \in {1, 2} |->
                    [server_name |-> IF s = 1 THEN "Server 1" ELSE "Server 2",
                     is_active |-> s = 1]]
    /\ serverCalls = [s \in ServerIds |-> IF s \in {1, 2} THEN "created" ELSE "absent"]

\* Scenario 1 is assigned to server 1, scenario 2 to no server.
StoredScenarios ==
    scenarios = [s \in ScenarioIds |->
                    IF s = 1 THEN ScenarioClass_new(1, "Scenario 1", 1)
                    ELSE ScenarioClass_new(s, "Scenario 2", NULL)]

IdleRun ==
    /\ StoredScenarios
    /\ logs = <<>>
    /\ task = [t \in {} |-> Frame(NULL, <<"", "">>, "")]
    /\ published = <<>>
    /\ clock = 1
    /\ switches = 0
    /\ writes = 0
    /\ running = NULL

\* ---- ServersClass: rows are created, deactivated, activated
InitServers ==
    /\ servers = [s \in {} |-> ServersClass_new("")]
    /\ serverCalls = [s \in ServerIds |-> "absent"]
    /\ IdleStore
    /\ IdleRun

NextServers == \E s \in ServerIds : CreateServer(s) \/ deactivate(s) \/ activate(s)

SpecServers == InitServers /\ [][NextServers]_vars

\* ---- ScenarioComponentLink.save
InitLinks == StoredServers /\ IdleStore /\ IdleRun

NextLinks ==
    \/ \E inst \in NewLinkInstances : ScenarioComponentLink_save(inst)
    \/ \E inst \in StoredLinkInstances : ScenarioComponentLink_save(inst)

SpecLinks == InitLinks /\ [][NextLinks]_vars

\* ---- MainClass.save
InitMain == StoredServers /\ IdleStore /\ IdleRun

NextMain ==
    \/ \E instance \in NewMainInstances : MainClass_save(instance)
    \/ \E instance \in StoredMainInstances : MainClass_save(instance)

SpecMain == InitMain /\ [][NextMain]_vars

\* ---- ObjectTypeProperty.save over changing reference data
InitProps == StoredServers /\ IdleStore /\ IdleRun

NextProps ==
    \/ \E p \in PropertyIds, c \in UnitCategoryIds \cup {NULL} :
           ObjectTypeProperty_save(p, c)
    \/ \E d \in UnitDefinitionIds, b \in BOOLEAN : UnitDefinition_save(d, b)

SpecProps == InitProps /\ [][NextProps]_vars

\* ---- one invocation of run_scenario, with faults and another writer
\* A scenario_id no stored row has.
MissingScenarioId == Cardinality(ScenarioIds) + 1

InitRun ==
    /\ StoredServers
    /\ IdleStore
    /\ StoredScenarios
    /\ logs = <<>>
    /\ \E id \in ScenarioIds \cup {MissingScenarioId}, d \in DateLabels,
          h \in Hostnames : task = [t \in {1} |-> Frame(id, d, h)]
    /\ published = <<>>
    /\ clock = 1
    /\ switches = 0
    /\ writes = 0
    /\ running = NULL

TaskStep == \E t \in DOMAIN task : RunStep(t) \/ Fault(t)

NextRun ==
    \/ \E t \in DOMAIN task : Load(t)
    \/ \E t \in DOMAIN task : Start(t)
    \/ \E t \in DOMAIN task : Save1(t)
    \/ \E t \in DOMAIN task : LogStarted(t)
    \/ \E t \in DOMAIN task : LogProgress(t)
    \/ \E t \in DOMAIN task : UpdateState(t)
    \/ \E t \in DOMAIN task : Finish(t)
    \/ \E t \in DOMAIN task : Save2(t)
    \/ \E t \in DOMAIN task : LogFinished(t)
    \/ \E t \in DOMAIN task : Return(t)
    \/ \E t \in DOMAIN task : Fault(t)
    \/ \E s \in ScenarioIds, a \in BOOLEAN, tid \in {"", "celery-task-1"},
          srv \in {NULL, 1, 2} : OtherWriter(s, a, tid, srv)

\* The worker runs a task it has received until the task returns or raises.
SpecRun == InitRun /\ [][NextRun]_vars /\ WF_vars(TaskStep)

\* ---- two invocations of run_scenario for scenario 1
InitRace ==
    /\ StoredServers
    /\ IdleStore
    /\ StoredScenarios
    /\ logs = <<>>
    /\ \E h \in Hostnames :
          task = [t \in {1, 2} |->
                    Frame(1, IF t = 1 THEN <<"2024-01-01", "2024-01-31">>
                                      ELSE <<"2024-02-01", "2024-02-29">>, h)]
    /\ published = <<>>
    /\ clock = 1
    /\ switches = 0
    /\ writes = 0
    /\ running = NULL

\* The invocations are numbered in the order in which a worker starts them.
InOrder(t) == \A u \in DOMAIN task : u < t => task[u].pc # "load"

NextRace ==
    \/ \E t \in DOMAIN task : InOrder(t) /\ Load(t)
    \/ \E t \in DOMAIN task : Start(t)
    \/ \E t \in DOMAIN task : Save1(t)
    \/ \E t \in DOMAIN task : LogStarted(t)
    \/ \E t \in DOMAIN task : LogProgress(t)
    \/ \E t \in DOMAIN task : UpdateState(t)
    \/ \E t \in DOMAIN task : Finish(t)
    \/ \E t \in DOMAIN task : Save2(t)
    \/ \E t \in DOMAIN task : LogFinished(t)
    \/ \E t \in DOMAIN task : Return(t)

SpecRace == InitRace /\ [][NextRace]_vars

Spec == SpecRun

\* ==================================================================== claims

LogsOf(s) == SelectSeq(logs, LAMBDA r : r.scenario = s)
ProgressOf(rows) == [k \in 1..Len(rows) |-> rows[k].progress]
Contains(text, part) == \E k \in 1..Len(text) : text[k] = part
IsProgressRow(r) == Len(r.message) = 3
LoopRows(s) == SelectSeq(logs, LAMBDA r : r.scenario = s /\ IsProgressRow(r))
LoopProgress == [k \in 1..11 |-> 10 * (k - 1)]
TaskMessages ==
    {<<"Task started">>, <<"Task finished">>} \cup {ProgressMessage(LoopProgress[k]) : k \in 1..11}

\* ---- C1
\* C1 as stated: a run that returns leaves exactly 12 log rows of the scenario,
\* with progress 0,10,...,100 and no value twice, status SUCCESS, end_date set and
\* a description containing both date strings.
C1_TwelveRows ==
    \A t \in DOMAIN task : task[t].pc = "done" =>
        LET s == task[t].scenario_id
            rows == LogsOf(s)
        IN  /\ Len(rows) = 12
            /\ \A j, k \in 1..Len(rows) : j # k => rows[j].progress # rows[k].progress
            /\ scenarios[s].status = "SUCCESS"
            /\ scenarios[s].end_date # NULL
            /\ Contains(scenarios[s].description, task[t].start_date)
            /\ Contains(scenarios[s].description, task[t].end_date)

\* C1 amended: a run that returns leaves exactly 13 log rows of the scenario, with
\* progress 0, 0,10,...,100, 100 in that order (the "Task started" row repeats 0 and
\* the "Task finished" row repeats 100); the stored status is SUCCESS, end_date is
\* set and the description contains both date strings.
C1_ThirteenRows ==
    \A t \in DOMAIN task : task[t].pc = "done" =>
        LET s == task[t].scenario_id
            rows == LogsOf(s)
        IN  /\ Len(rows) = 13
            /\ ProgressOf(rows) = <<0>> \o LoopProgress \o <<100>>
            /\ rows[1].message = <<"Task started">>
            /\ rows[13].message = <<"Task finished">>
            /\ scenarios[s].status = "SUCCESS"
            /\ scenarios[s].end_date # NULL
            /\ Contains(scenarios[s].description, task[t].start_date)
            /\ Contains(scenarios[s].description, task[t].end_date)

C1_Witness ==
    \E t \in DOMAIN task :
        /\ task[t].pc = "done"
        /\ Len(LogsOf(task[t].scenario_id)) = 13
        /\ scenarios[task[t].scenario_id].description
               = <<"Calculated from ", "2024-01-01", " to ", "2024-01-31">>

\* ---- C2
SharesDataSource(rows, inst) ==
    \E l \in rows : /\ l.pk # inst.pk
                    /\ l.scenario = inst.scenario
                    /\ ComponentDataSource(l.component)
                           = ComponentDataSource(inst.component)

\* C2: no scenario ever has two links whose components share a data source; a
\* save whose component's data source is already linked to the scenario by
\* another link record raises ValidationError and leaves the table as it was; any
\* other save, a re-save of a stored link included, is accepted and stored.
C2_OnePerDataSource ==
    /\ \A l1, l2 \in links :
          (l1 # l2 /\ l1.scenario = l2.scenario)
              => ComponentDataSource(l1.component) # ComponentDataSource(l2.component)
    /\ call.op = "link_save" =>
          IF SharesDataSource(call.pre, call.inst)
          THEN raised = ValidationError /\ links = call.pre
          ELSE /\ raised = NoException
               /\ \E l \in links : /\ l.scenario = call.inst.scenario
                                   /\ l.component = call.inst.component
                                   /\ call.inst.pk # NULL => l.pk = call.inst.pk
               /\ call.inst \in call.pre => links = call.pre

C2_Witness ==
    /\ call.op = "link_save"
    /\ call.inst.pk # NULL
    /\ raised = ValidationError
    /\ Cardinality(links) >= 2
    /\ \E l \in links : l.pk = call.inst.pk /\ l # call.inst

\* ---- C3
\* C3: a save of a MainClass row whose object_instance belongs to another
\* ObjectType than the row's object_type raises ValidationError and leaves the
\* stored rows as they were; a save where the two agree is stored.
C3_MismatchRejected ==
    call.op = "main_save" =>
        IF InstanceObjectType(call.inst.object_instance) # call.inst.object_type
        THEN raised = ValidationError /\ mainRows = call.pre
        ELSE /\ raised = NoException
             /\ \E r \in mainRows :
                    /\ r.object_type = call.inst.object_type
                    /\ r.object_instance = call.inst.object_instance
                    /\ r.value = call.inst.value
                    /\ call.inst.pk # NULL => r.pk = call.inst.pk

C3_Witness ==
    /\ call.op = "main_save"
    /\ raised = ValidationError
    /\ call.inst.object_type = 1
    /\ call.inst.object_instance = 2
    /\ mainRows # {}
    /\ mainRows = call.pre

\* ---- C4
TypeBases(c) == BaseDefinitions(CategoryUnitType(c))

\* C4 as stated: after a save the unit is a base definition of the unit type of
\* the property's unit_category, and null when unit_category is null.
C4_AlwaysBase ==
    call.op = "prop_save" =>
        LET r == props[call.pk]
        IN  IF r.unit_category = NULL THEN r.unit = NULL
            ELSE r.unit # NULL /\ r.unit \in TypeBases(r.unit_category)

\* C4 amended: after a save the unit is null when unit_category is null or when
\* no definition of the category's unit type is flagged is_base; otherwise it is
\* the is_base definition of that type that comes first by unit_definition_name.
\* A second save with the reference data unchanged leaves the unit as it was.
C4_FirstBaseOrNull ==
    call.op = "prop_save" =>
        LET r == props[call.pk]
        IN  /\ IF r.unit_category = NULL \/ TypeBases(r.unit_category) = {}
               THEN r.unit = NULL
               ELSE /\ r.unit \in TypeBases(r.unit_category)
                    /\ \A e \in TypeBases(r.unit_category) :
                           unitDefs[r.unit].unit_definition_name
                               <= unitDefs[e].unit_definition_name
            /\ (call.fresh /\ call.pre.unit_category = r.unit_category)
                   => r.unit = call.pre.unit

C4_Witness ==
    /\ call.op = "prop_save"
    /\ call.fresh
    /\ props[call.pk].unit = 2
    /\ call.pre.unit = 2
    /\ Cardinality(TypeBases(props[call.pk].unit_category)) = 2

\* ---- C5
\* C5: the default listing holds exactly the rows whose last call was activate()
\* or on which neither was called, and the all-servers listing every row created.
C5_Listings ==
    /\ ActiveManager_get_queryset
           = {s \in ServerIds : serverCalls[s] \in {"created", "activate"}}
    /\ all_objects = {s \in ServerIds : serverCalls[s] # "absent"}

C5_Witness ==
    \E s1, s2 \in ServerIds :
        /\ serverCalls[s1] = "deactivate"
        /\ s1 \notin ActiveManager_get_queryset
        /\ s1 \in all_objects
        /\ serverCalls[s2] = "activate"
        /\ s2 \in ActiveManager_get_queryset

\* ---- C6
StoredStatus(t) == scenarios[task[t].scenario_id].status

\* C6 as stated: a run that ended with an exception leaves the stored status
\* STARTED and no log row describing the failure.
C6_AlwaysStarted ==
    \A t \in DOMAIN task :
        (task[t].pc = "failed" /\ task[t].scenario_id \in DOMAIN scenarios) =>
            /\ task[t].error # NoException
            /\ StoredStatus(t) = "STARTED"
            /\ \A k \in 1..Len(logs) : logs[k].message \in TaskMessages

\* C6 amended: an exception propagates out of the task (no result) and no log
\* row describes it; the stored status is STARTED when it is raised after the
\* save of line 15 and up to the save of line 37, it is the status the scenario
\* had before the task (PENDING) when it is raised before or by the save of
\* line 15, as for a null server reference, and SUCCESS when it is raised by the
\* last log write.
C6_StatusByFaultPoint ==
    \A t \in DOMAIN task : task[t].pc = "failed" =>
        /\ task[t].error # NoException
        /\ task[t].result = NoResult
        /\ \A k \in 1..Len(logs) : logs[k].message \in TaskMessages
        /\ task[t].scenario_id \in DOMAIN scenarios =>
              StoredStatus(t) =
                 CASE task[t].failed_at \in {"load", "start", "save1"} -> "PENDING"
                   [] task[t].failed_at \in {"log_started", "log_progress",
                                              "update_state", "save2"} -> "STARTED"
                   [] task[t].failed_at = "log_finished" -> "SUCCESS"

C6_Witness ==
    \E t \in DOMAIN task :
        /\ task[t].pc = "failed"
        /\ task[t].error = "AttributeError"
        /\ task[t].scenario.server = NULL
        /\ StoredStatus(t) = "PENDING"
        /\ logs = <<>>

\* ---- C7
\* C7: the two runs are not excluded from each other: every save of either run
\* replaces the stored row by that run's own instance, as loaded earlier and
\* assigned since, whatever the other run stored in between.
C7_SaveStoresOwnCopy ==
    [][scenarios' # scenarios =>
          \E t \in DOMAIN task :
              /\ task[t].pc \in {"save1", "save2"}
              /\ task'[t].pc # task[t].pc
              /\ scenarios'[task[t].scenario_id] = task[t].scenario]_vars

\* Run 2 has returned after storing SUCCESS; run 1, which loaded before that,
\* has since stored its copy (STARTED, no end_date, blank description), and its
\* "Task started" row lies between the rows of run 2.
C7_Witness ==
    /\ task[2].pc = "done"
    /\ task[2].scenario.status = "SUCCESS"
    /\ task[1].pc = "log_progress"
    /\ scenarios[1].status = "STARTED"
    /\ scenarios[1].end_date = NULL
    /\ scenarios[1].description = <<>>
    /\ \E i, j, k \in 1..Len(logs) :
          /\ i < j /\ j < k
          /\ logs[i].message = <<"Task started">>
          /\ logs[j].message = <<"Task started">>
          /\ logs[k].message = <<"Task finished">>

\* ---- C8
\* C8: once line 15 has run, the stored row of the scenario's server carries the
\* worker's hostname, and the stored scenario is STARTED with start_date set.
C8_ServerCarriesHost ==
    \A t \in DOMAIN task : task[t].pc = "log_started" =>
        /\ servers[task[t].scenario.server].server_name = task[t].hostname
        /\ StoredStatus(t) = "STARTED"
        /\ scenarios[task[t].scenario_id].start_date # NULL

\* ---- C9
StatusRank(status) ==
    CASE status = "PENDING" -> 0 [] status = "STARTED" -> 1 [] status = "SUCCESS" -> 2

InLoop(t) == task[t].pc \in {"log_progress", "update_state"}
PastLoop(t) == task[t].pc \in {"finish", "save2", "log_finished", "return", "done"}

\* C9: the stored status only takes the values PENDING, STARTED, SUCCESS and
\* never moves backward; it is STARTED whenever a progress row is appended or a
\* progress update published; after the loop the progress rows and the published
\* updates are 0,10,...,100 in this order; a run that has returned has stored
\* SUCCESS and returns {status: SUCCESS, scenario_id}; every run ends, returning
\* or raising.
C9_Lifecycle ==
    /\ [][\A s \in ScenarioIds :
             /\ StatusRank(scenarios'[s].status) >= StatusRank(scenarios[s].status)
             /\ StatusRank(scenarios'[s].status) <= StatusRank(scenarios[s].status) + 1]_vars
    /\ [](\A s \in ScenarioIds :
             scenarios[s].status \in {"PENDING", "STARTED", "SUCCESS"})
    /\ [](\A t \in DOMAIN task :
             /\ InLoop(t) => StoredStatus(t) = "STARTED"
             /\ PastLoop(t) =>
                   /\ ProgressOf(LoopRows(task[t].scenario_id)) = LoopProgress
                   /\ ProgressOf(published) = LoopProgress
             /\ task[t].pc = "done" =>
                   /\ StoredStatus(t) = "SUCCESS"
                   /\ task[t].result = [status |-> "SUCCESS",
                                        scenario_id |-> task[t].scenario_id])
    /\ [][(logs' # logs \/ published' # published) =>
             \A t \in DOMAIN task :
                 InLoop(t) =>
                     /\ StoredStatus(t) = "STARTED"
                     /\ scenarios'[task[t].scenario_id].status = "STARTED"
                     /\ Len(logs') > Len(logs) =>
                            /\ logs'[Len(logs')].progress = task[t].i
                            /\ \A k \in 1..Len(logs) :
                                   IsProgressRow(logs[k]) => logs[k].progress < task[t].i
                     /\ Len(published') > Len(published) =>
                            published'[Len(published')].progress = task[t].i]_vars
    /\ (task[1].pc = "load") ~> (task[1].pc \in {"done", "failed"})

C9_Witness ==
    /\ task[1].pc = "done"
    /\ StoredStatus(1) = "SUCCESS"
    /\ Len(published) = 11
    /\ published[11].progress = 100

\* ---- C10
\* C10: a step of the task leaves the stored log rows in place, leaves every
\* other scenario as it was, and leaves the columns of its own scenario that it
\* never assigns (scenario_name, task_id, is_approved, server) as they were in the
\* store just before the step.
C10_Frame ==
    [][task' # task =>
          /\ Len(logs') >= Len(logs)
          /\ SubSeq(logs', 1, Len(logs)) = logs
          /\ \A s \in ScenarioIds :
                /\ (\A t \in DOMAIN task : task[t].scenario_id # s)
                       => scenarios'[s] = scenarios[s]
                /\ scenarios'[s].scenario_name = scenarios[s].scenario_name
                /\ scenarios'[s].task_id = scenarios[s].task_id
                /\ scenarios'[s].is_approved = scenarios[s].is_approved
                /\ scenarios'[s].server = scenarios[s].server]_vars

====
